---- MODULE Spec2Model ----
(***************************************************************************)
(* Model of pkg/logwatch (watcher.go): the Watcher that keeps, per         *)
(* container, a counter of the bytes written to its log files, driven by   *)
(* the event stream of a symnotify.Watcher over a directory tree.          *)
(*                                                                         *)
(* Paths are strings, modelled as sequences of one-character strings, so   *)
(* that the regular expressions and filepath.HasPrefix are computed on     *)
(* characters as the code computes them.                                   *)
(***************************************************************************)
EXTENDS Integers, Sequences, FiniteSets, TLC

\* -------------------------------------------------------------------------
\* Bounds of the model.
\* -------------------------------------------------------------------------

\* Largest size of a log file.
MaxSize == 2

\* Largest number of file-system operations after the Watcher is constructed.
MaxSteps == 3

\* Largest number of file-system operations in the runs that build a pod's
\* directory tree after the Watcher is constructed.
MaxLateSteps == 5

\* -------------------------------------------------------------------------
\* Characters and the path universe.
\* -------------------------------------------------------------------------

\* [a-z0-9-], restricted to the characters the universe uses.
NameCh == {"r", "n", "p", "a", "b", "c", "l", "o", "g", "0", "1", "-"}

\* [a-f0-9-], restricted likewise.
HexCh == {"a", "b", "c", "0", "1", "-"}

Slash == <<"/">>

\* filepath.Join(dir, name) for a clean dir and a single name.
Join(dir, name) == dir \o Slash \o name

\* The watched root directory, "/r".
Root == <<"/", "r">>

\* Pod directories "/r/n_p_ab" and "/r/n_p_a": namespace n, pod p, UUIDs ab and
\* a.  The logs of the universe are those of pod ab; pod a is a pod directory
\* beside it whose name is a prefix of pod ab's.
PodAB == Join(Root, <<"n", "_", "p", "_", "a", "b">>)

PodA == Join(Root, <<"n", "_", "p", "_", "a">>)

PodDirs == {PodAB, PodA}

\* The container directory "c" of a pod.
ContainerName == <<"c">>

ContainerDir(pod) == Join(pod, ContainerName)

ContainerDirs == {ContainerDir(PodAB)}

Log0 == <<"0", ".", "l", "o", "g">>

Log1 == <<"1", ".", "l", "o", "g">>

\* Log files: 0.log and 1.log of pod ab's container c.
File0 == Join(ContainerDir(PodAB), Log0)

File1 == Join(ContainerDir(PodAB), Log1)

LogFiles == {File0, File1}

\* Log paths that the runtime creates as symlinks to a file kept elsewhere
\* (rename/symlink rotation replaces the target, not the link); a rename moves
\* the symlink to another path.
Links == {File1}

\* The directory, outside the watched tree, of the files the symlinks point at,
\* "/t", and the file a symlink made at path points at.
TargetDir == <<"/", "t">>

Target(path) == Join(TargetDir, SubSeq(path, Len(path) - 4, Len(path)))

Targets == {Target(p) : p \in LogFiles}

Dirs == {Root} \cup PodDirs \cup ContainerDirs

Paths == Dirs \cup LogFiles

\* filepath.Dir for the paths of the universe.
Parent(path) ==
    CASE path \in LogFiles -> CHOOSE d \in ContainerDirs : \E n \in {Log0, Log1} : Join(d, n) = path
      [] path \in ContainerDirs -> CHOOSE d \in PodDirs : ContainerDir(d) = path
      [] OTHER -> Root

\* Every path of the universe in lexical order, as filepath.Walk visits them.
WalkOrder ==
    << Root, PodA, PodAB, ContainerDir(PodAB), File0, File1 >>

\* -------------------------------------------------------------------------
\* Regular expressions logFile and logPodDir.
\* -------------------------------------------------------------------------

RECURSIVE RunEnd(_, _, _)
\* The index after the longest run of characters of class cls starting at i.
RunEnd(s, i, cls) ==
    IF i <= Len(s) /\ s[i] \in cls THEN RunEnd(s, i + 1, cls) ELSE i

At(s, i, ch) == i <= Len(s) /\ s[i] = ch

DotLog == <<".", "l", "o", "g">>

\* `.*\.log` matches somewhere at or after index i.
HasDotLog(s, i) ==
    \E q \in i..(Len(s) - 3) : SubSeq(s, q, q + 3) = DotLog

\* The match of `/([a-z0-9-]+)_([a-z0-9-]+)_([a-f0-9-]+)` that starts at i:
\* <<j, k, m>>, the indices of the two "_" and the index after the match, or
\* <<>> when there is none.  The third group is greedy; the caller decides what
\* must follow it.
PodMatchAt(s, i) ==
    IF ~At(s, i, "/") THEN <<>>
    ELSE LET j == RunEnd(s, i + 1, NameCh)
         IN  IF j = i + 1 \/ ~At(s, j, "_") THEN <<>>
             ELSE LET k == RunEnd(s, j + 1, NameCh)
                  IN  IF k = j + 1 \/ ~At(s, k, "_") THEN <<>>
                      ELSE LET m == RunEnd(s, k + 1, HexCh)
                           IN  IF m = k + 1 THEN <<>> ELSE <<j, k, m>>

\* The match of logFile that starts at i: the labels, or <<>>.
LogFileMatchAt(s, i) ==
    LET pm == PodMatchAt(s, i)
    IN  IF pm = <<>> \/ ~At(s, pm[3], "/") THEN <<>>
        ELSE LET n == RunEnd(s, pm[3] + 1, NameCh)
             IN  IF n = pm[3] + 1 \/ ~At(s, n, "/") \/ ~HasDotLog(s, n + 1) THEN <<>>
                 ELSE << [ Namespace |-> SubSeq(s, i + 1, pm[1] - 1),
                           Name      |-> SubSeq(s, pm[1] + 1, pm[2] - 1),
                           UUID      |-> SubSeq(s, pm[2] + 1, pm[3] - 1),
                           Container |-> SubSeq(s, pm[3] + 1, n - 1) ] >>

\* Parse as it would be if the path were kept as a label: the container label
\* carries the whole path, rotation name included.
ParseWithPath(path) ==
    LET starts == {i \in 1..Len(path) : LogFileMatchAt(path, i) # <<>>}
    IN  IF starts = {} THEN <<>>
        ELSE LET l == LogFileMatchAt(path, CHOOSE i \in starts : \A j \in starts : i <= j)[1]
             IN  << [l EXCEPT !.Container = path] >>

\* LogLabels.Parse: <<labels>> of the leftmost match of logFile, or <<>>.
Parse(path) ==
    LET starts == {i \in 1..Len(path) : LogFileMatchAt(path, i) # <<>>}
    IN  IF starts = {} THEN <<>>
        ELSE LogFileMatchAt(path, CHOOSE i \in starts : \A j \in starts : i <= j)

\* IsPodDir as it would be if logPodDir lacked its final `$`.
IsPodDirUnanchored(path) ==
    \E i \in 1..Len(path) : PodMatchAt(path, i) # <<>>

\* logPodDir.FindStringSubmatch(path) != nil.
IsPodDir(path) ==
    \E i \in 1..Len(path) :
        LET pm == PodMatchAt(path, i)
        IN  pm # <<>> /\ pm[3] = Len(path) + 1

\* filepath.HasPrefix(k, path): a prefix of the string, not of the path.
HasPrefix(k, path) ==
    Len(path) <= Len(k) /\ SubSeq(k, 1, Len(path)) = path

\* The labels of every path of the universe, computed once.
Labels == [p \in Paths \cup Targets |-> Parse(p)]

\* The label combinations of the universe's log files.
AllLabels == {Labels[p][1] : p \in LogFiles}

\* fsnotify.Op values carried by symnotify events.
Ops == {"Create", "Write", "Remove", "Rename", "Chmod"}

\* -------------------------------------------------------------------------
\* State.
\* -------------------------------------------------------------------------

VARIABLES
    phase,      \* "init" before New returns, then "watching"; "closed" once Close
                \* was called, "returned" once Watch has returned
    dirs,       \* file system: the directories that exist
    files,      \* file system: size of each log file as os.Stat sees it, -1 if absent
    links,      \* file system: the log paths that are symlinks to a file kept elsewhere
    watches,    \* symnotify: the directories and symlinks registered with the notifier
    queue,      \* symnotify: the events not yet returned by Event()
    received,   \* run loop: <<e>>, the event Event() returned that is not handled yet
    sizes,      \* Watcher.sizes: path -> last size seen
    metrics,    \* Watcher.metrics: label combination -> counter value
    credited,   \* history: bytes each path added to its series since the series was made
    written,    \* history: bytes ever written to each log path
    steps,      \* history: the number of file-system operations so far
    last        \* history: the last call the Watcher completed

vars == <<phase, dirs, files, links, watches, queue, received, sizes, metrics, credited, written, steps, last>>

fsvars == <<dirs, files, links, written, steps>>

wvars == <<received, sizes, metrics, credited, last>>

Absent == -1

\* The value of a series as a reader sees it; an absent series reads as 0.
Read(m, l) == IF l \in DOMAIN m THEN m[l] ELSE 0

\* w.sizes[path]: the zero value when the key is absent.
SizeOf(sz, path) == IF path \in DOMAIN sz THEN sz[path] ELSE 0

RECURSIVE SumOver(_, _)
\* The sum of f over the finite set S.
SumOver(f, S) ==
    IF S = {} THEN 0
    ELSE LET e == CHOOSE e \in S : TRUE IN f[e] + SumOver(f, S \ {e})

FilesOf(l) == {p \in LogFiles : Labels[p] = <<l>>}

Exists(path) == IF path \in LogFiles THEN files[path] # Absent ELSE path \in dirs

\* -------------------------------------------------------------------------
\* Watcher.Update and Watcher.Remove, on st = [sizes, metrics, credited].
\* -------------------------------------------------------------------------

\* AddFor as it would be without the truncation case.
AddForDifference(size, lastSize) == size - lastSize

\* The amount Update adds for a file of length size last seen at lastSize.
AddFor(size, lastSize) ==
    IF size >= lastSize THEN size - lastSize ELSE size

\* The fields of st after an Update of path: size recorded, counter of l set.
Updated(st, path, l, size, counter, add) ==
    [ sizes    |-> [k \in DOMAIN st.sizes \cup {path} |->
                       IF k = path THEN size ELSE st.sizes[k]],
      metrics  |-> [c \in DOMAIN st.metrics \cup {l} |->
                       IF c = l THEN counter ELSE st.metrics[c]],
      credited |-> [st.credited EXCEPT ![path] = @ + add] ]

\* os.Stat(path).Size(), following symlinks; Absent when the stat fails.
Stat(path) == IF path \in LogFiles THEN files[path] ELSE Absent

\* UpdateFile as it would be if it recorded a size only when the file grew.
UpdateFileRecordGrowth(path, l, st) ==
    LET size == Stat(path)
        lastSize == SizeOf(st.sizes, path)
        add == AddFor(size, lastSize)
    IN  IF size = Absent THEN st
        ELSE Updated(st, path, l, IF size >= lastSize THEN size ELSE lastSize,
                     Read(st.metrics, l) + add, add)

\* UpdateFile as it would be if it set the counter instead of adding to it.
UpdateFileSet(path, l, st) ==
    LET size == Stat(path)
        add == AddFor(size, SizeOf(st.sizes, path))
    IN  IF size = Absent THEN st
        ELSE Updated(st, path, l, size, add, add)

\* UpdateFile as it would be if it did not record the size it saw.
UpdateFileNoRecord(path, l, st) ==
    LET size == Stat(path)
        lastSize == SizeOf(st.sizes, path)
        add == AddFor(size, lastSize)
    IN  IF size = Absent THEN st
        ELSE Updated(st, path, l, lastSize, Read(st.metrics, l) + add, add)

\* UpdateFile as it would be if it looked the counter up, making the series,
\* before the stat.
UpdateFileSeriesFirst(path, l, st) ==
    LET size == Stat(path)
        counter == Read(st.metrics, l)
        add == AddFor(size, SizeOf(st.sizes, path))
    IN  IF size = Absent
        THEN [st EXCEPT !.metrics = [c \in DOMAIN st.metrics \cup {l} |->
                                        IF c = l THEN counter ELSE st.metrics[c]]]
        ELSE Updated(st, path, l, size, counter + add, add)

\* UpdateFile as it would be if a failed stat were taken for an empty file.
UpdateFileStatZero(path, l, st) ==
    LET size == IF Stat(path) = Absent THEN 0 ELSE Stat(path)
        add == AddFor(size, SizeOf(st.sizes, path))
    IN  Updated(st, path, l, size, Read(st.metrics, l) + add, add)

\* The body of Update for a path that parsed to labels l: stat, look the
\* counter up (making the series if there is none), record the size, add.
UpdateFile(path, l, st) ==
    LET size == Stat(path)
        counter == Read(st.metrics, l)
        lastSize == SizeOf(st.sizes, path)
        add == AddFor(size, lastSize)
    IN  IF size = Absent THEN st
        ELSE Updated(st, path, l, size, counter + add, add)

\* ReadDir as it would be if Update did not scan directories.
ReadDirNone(path) == <<>>

\* ioutil.ReadDir(path): the entries of a directory, sorted by name; empty on error.
ReadDir(path) ==
    IF path \in dirs
    THEN SelectSeq(WalkOrder, LAMBDA c : c # Root /\ Parent(c) = path /\ Exists(c))
    ELSE <<>>

RECURSIVE Update(_, _)
RECURSIVE UpdateEach(_, _)
\* w.Update(path).
Update(path, st) ==
    IF Labels[path] # <<>>
    THEN UpdateFile(path, Labels[path][1], st)
    ELSE UpdateEach(ReadDir(path), st)

\* Update applied to each path of a list in turn.  (The state after the head
\* is bound as a value, so that it is computed once.)
UpdateEach(list, st) ==
    IF list = <<>> THEN st
    ELSE CHOOSE r \in {UpdateEach(Tail(list), next) : next \in {Update(Head(list), st)}} : TRUE

\* Remove as it would be without the DeleteLabelValues call.
RemoveSizesOnly(path, st) ==
    IF IsPodDir(path)
    THEN LET gone == {k \in DOMAIN st.sizes : HasPrefix(k, path)}
         IN  [st EXCEPT !.sizes = [k \in DOMAIN st.sizes \ gone |-> st.sizes[k]]]
    ELSE st

\* w.Remove(path).
Remove(path, st) ==
    IF IsPodDir(path)
    THEN LET gone == {k \in DOMAIN st.sizes : HasPrefix(k, path)}
             goneLabels == {Labels[k][1] : k \in {g \in gone : Labels[g] # <<>>}}
         IN  [ sizes    |-> [k \in DOMAIN st.sizes \ gone |-> st.sizes[k]],
               metrics  |-> [c \in DOMAIN st.metrics \ goneLabels |-> st.metrics[c]],
               credited |-> [p \in LogFiles |->
                                IF Labels[p][1] \in goneLabels THEN 0 ELSE st.credited[p]] ]
    ELSE st

State == [sizes |-> sizes, metrics |-> metrics, credited |-> credited]

Install(st, call) ==
    /\ sizes' = st.sizes
    /\ metrics' = st.metrics
    /\ credited' = st.credited
    /\ last' = call

\* -------------------------------------------------------------------------
\* symnotify.Watcher: registration and the event stream.
\* -------------------------------------------------------------------------

\* The directories at or below dir that exist, and the symlinks in them.
Subtree(dir) ==
    {p \in Dirs \cup links : Exists(p) /\ (p = dir \/ HasPrefix(p, dir \o Slash))}

\* symnotify Add(name): a directory is registered with everything below it, a
\* symlink by its resolved target; a name that vanished registers nothing.
Registered(name) ==
    IF name \in dirs THEN Subtree(name)
    ELSE IF name \in links THEN {name}
    ELSE {}

\* What Event() registers before it returns e; nothing once the watcher is
\* closed.
Register(e) ==
    IF phase = "watching" /\ (e.Op = "Create" \/ (e.Op = "Chmod" /\ e.Name \in links))
    THEN watches \cup Registered(e.Name)
    ELSE watches

\* Whether a change to path is reported: a symlink's target by its own
\* registration, anything else by that of the directory holding it.
Watched(path) ==
    IF path \in links THEN path \in watches ELSE Parent(path) \in watches

Event(name, op) == [Name |-> name, Op |-> op]

\* The stream after the notifier reports op on name, when it is watched.
Report(reported, name, op) ==
    queue' = IF reported THEN Append(queue, Event(name, op)) ELSE queue

\* EventName as it would be if events carried the resolved path of a symlink.
EventNameResolved(path) == IF path \in links THEN Target(path) ELSE path

\* The Name of the events reported for the file at path: the path itself, for
\* a symlink too.
EventName(path) == path

\* RenameEvents as it would be if both events of a rename were Rename events.
RenameEventsBothRename(old, new) == <<Event(old, "Rename"), Event(new, "Rename")>>

\* The events of a rename of old to new: Rename with the old name, then Create
\* with the new one.
RenameEvents(old, new) == <<Event(old, "Rename"), Event(new, "Create")>>

\* -------------------------------------------------------------------------
\* Initial state: a tree of log files made before the Watcher.
\* -------------------------------------------------------------------------

TreeOK(ds, fs) ==
    /\ Root \in ds
    /\ \A d \in ContainerDirs : d \in ds => Parent(d) \in ds
    /\ \A p \in LogFiles : fs[p] # Absent => Parent(p) \in ds

BytesIn(fs, l) == SumOver([p \in LogFiles |-> IF fs[p] = Absent THEN 0 ELSE fs[p]], FilesOf(l))

Init ==
    /\ phase = "init"
    /\ dirs \in SUBSET Dirs
    /\ files \in [LogFiles -> Absent..MaxSize]
    /\ TreeOK(dirs, files)
    /\ links = {p \in Links : files[p] # Absent}
    /\ watches = {}
    /\ queue = <<>>
    /\ received = <<>>
    /\ sizes = <<>>
    /\ metrics = <<>>
    /\ credited = [p \in LogFiles |-> 0]
    /\ written = [p \in LogFiles |-> IF files[p] = Absent THEN 0 ELSE files[p]]
    /\ steps = 0
    /\ last = [op |-> "none", name |-> <<>>]

\* -------------------------------------------------------------------------
\* New(dir): watch the root, then walk the tree applying Update to every path.
\* -------------------------------------------------------------------------

\* filepath.Walk(dir, update): every existing path in lexical order.
Walk(st) == UpdateEach(SelectSeq(WalkOrder, Exists), st)

New ==
    /\ phase = "init"
    /\ phase' = "watching"
    /\ watches' = Registered(Root)
    /\ Install(Walk(State), [op |-> "New", name |-> Root])
    /\ UNCHANGED <<queue, received, fsvars>>

\* -------------------------------------------------------------------------
\* Watch: the run loop, one event at a time; Close.
\* -------------------------------------------------------------------------

\* New has returned and Watch has not.
Running == phase \in {"watching", "closed"}

\* w.watcher.Event() returns the next event of the stream, having registered
\* what the event names.
Receive ==
    /\ Running
    /\ received = <<>> /\ queue # <<>>
    /\ received' = <<Head(queue)>>
    /\ queue' = Tail(queue)
    /\ watches' = Register(Head(queue))
    /\ UNCHANGED <<phase, sizes, metrics, credited, last, fsvars>>

\* Handle as it would be without the case of Remove.
HandleAsUpdate(e, st) == Update(e.Name, st)

\* The switch of Watch on the event returned.
Handle(e, st) ==
    IF e.Op = "Remove" THEN Remove(e.Name, st) ELSE Update(e.Name, st)

\* The body of the loop of Watch, for the event Event() returned.
Watch ==
    /\ Running
    /\ received # <<>>
    /\ LET e == received[1]
       IN  Install(Handle(e, State),
                   [op |-> IF e.Op = "Remove" THEN "Remove" ELSE "Update", name |-> e.Name])
    /\ received' = <<>>
    /\ UNCHANGED <<phase, watches, queue, fsvars>>

\* Event() fails with io.EOF: the watcher is closed and the stream is drained.
EndOfStream == phase = "closed" /\ queue = <<>> /\ received = <<>>

\* Watch returns nil on io.EOF.
WatchReturns ==
    /\ EndOfStream
    /\ phase' = "returned"
    /\ last' = [op |-> "Watch", name |-> Root]
    /\ UNCHANGED <<watches, queue, received, sizes, metrics, credited, fsvars>>

\* Close as it would be if it unregistered the metrics and left the watcher
\* open.
CloseKeepsWatcher ==
    /\ phase = "watching"
    /\ last' = [op |-> "Close", name |-> Root]
    /\ UNCHANGED <<phase, watches, queue, received, sizes, metrics, credited, fsvars>>

\* w.Close(), from a goroutine other than the run loop's: the watcher is
\* closed, its watches are released, and the metrics are unregistered.
Close ==
    /\ phase = "watching"
    /\ phase' = "closed"
    /\ watches' = {}
    /\ last' = [op |-> "Close", name |-> Root]
    /\ UNCHANGED <<queue, received, sizes, metrics, credited, fsvars>>

\* -------------------------------------------------------------------------
\* The processes that write and rotate the logs.
\* -------------------------------------------------------------------------

\* One more file-system operation while the Watcher runs, of at most b.
Within(b) ==
    /\ phase = "watching"
    /\ steps < b
    /\ steps' = steps + 1

Step == Within(MaxSteps)

\* mkdir: a pod directory, or a container directory of an existing pod.
MkdirOp(d) ==
    /\ d \notin dirs /\ Parent(d) \in dirs
    /\ dirs' = dirs \cup {d}
    /\ Report(Parent(d) \in watches, d, "Create")
    /\ UNCHANGED <<phase, files, links, written, watches, wvars>>

Mkdir(d) == Step /\ MkdirOp(d)

\* A new, empty log file (for a symlink path: a link to a new empty target).
CreateOp(p) ==
    /\ files[p] = Absent /\ Parent(p) \in dirs
    /\ files' = [files EXCEPT ![p] = 0]
    /\ links' = IF p \in Links THEN links \cup {p} ELSE links
    /\ Report(Parent(p) \in watches, p, "Create")
    /\ UNCHANGED <<phase, dirs, written, watches, wvars>>

CreateFile(p) == Step /\ CreateOp(p)

\* n bytes appended to a log file.
AppendOp(p, n) ==
    /\ files[p] # Absent /\ files[p] + n <= MaxSize
    /\ files' = [files EXCEPT ![p] = @ + n]
    /\ written' = [written EXCEPT ![p] = @ + n]
    /\ Report(Watched(p), EventName(p), "Write")
    /\ UNCHANGED <<phase, dirs, links, watches, wvars>>

AppendLog(p, n) == Step /\ AppendOp(p, n)

\* Copy-truncate rotation: the file is cut to length 0 in place.
Truncate(p) ==
    /\ Step
    /\ files[p] > 0
    /\ files' = [files EXCEPT ![p] = 0]
    /\ Report(Watched(p), EventName(p), "Write")
    /\ UNCHANGED <<phase, dirs, links, written, watches, wvars>>

\* ReplaceTarget as it would be if the replacement of the target were reported
\* as the removal and the creation of the link.
ReplaceTargetRemoveCreate(p) ==
    /\ Step
    /\ p \in links
    /\ files' = [files EXCEPT ![p] = 0]
    /\ queue' = IF p \in watches
                THEN queue \o <<Event(p, "Remove"), Event(p, "Create")>> ELSE queue
    /\ watches' = watches \ {p}
    /\ UNCHANGED <<phase, dirs, links, written, wvars>>

\* Rename/symlink rotation: a new empty file is moved over the link's target.
\* The notifier reports it as Chmod on the link; the new target is unwatched
\* until Event() registers it again.
ReplaceTarget(p) ==
    /\ Step
    /\ p \in links
    /\ files' = [files EXCEPT ![p] = 0]
    /\ Report(p \in watches, EventName(p), "Chmod")
    /\ watches' = watches \ {p}
    /\ UNCHANGED <<phase, dirs, links, written, wvars>>

\* unlink of a log file (or of a symlink).
RemoveFile(p) ==
    /\ Step
    /\ files[p] # Absent
    /\ files' = [files EXCEPT ![p] = Absent]
    /\ links' = links \ {p}
    /\ Report(Parent(p) \in watches, p, "Remove")
    /\ watches' = watches \ {p}
    /\ UNCHANGED <<phase, dirs, written, wvars>>

\* rename of a log file, or of a symlink, to a free name of its directory.  A
\* symlink's target is reported under the new name once Event() has registered
\* the new link.
Rename(old, new) ==
    /\ Step
    /\ files[old] # Absent /\ files[new] = Absent /\ Parent(new) = Parent(old)
    /\ files' = [files EXCEPT ![new] = files[old], ![old] = Absent]
    /\ links' = IF old \in links THEN (links \ {old}) \cup {new} ELSE links
    /\ queue' = IF Parent(old) \in watches THEN queue \o RenameEvents(old, new) ELSE queue
    /\ watches' = watches \ {old}
    /\ UNCHANGED <<phase, dirs, written, wvars>>

\* rmdir of an empty pod or container directory.
Rmdir(d) ==
    /\ Step
    /\ d \in dirs /\ d # Root
    /\ \A c \in Paths : (c # Root /\ Parent(c) = d) => ~Exists(c)
    /\ dirs' = dirs \ {d}
    /\ Report(Parent(d) \in watches \/ d \in watches, d, "Remove")
    /\ watches' = watches \ {d}
    /\ UNCHANGED <<phase, files, links, written, wvars>>

\* Every event reported so far has been handled.
Quiet == phase = "watching" /\ queue = <<>> /\ received = <<>>

\* A rotation, or the removal of a log file, that starts once the counter has
\* settled on everything written before it.
TruncateSettled(p) == Quiet /\ Truncate(p)

ReplaceSettled(p) == Quiet /\ ReplaceTarget(p)

RemoveSettled(p) == Quiet /\ RemoveFile(p)

FsStep ==
    \/ \E d \in PodDirs \cup ContainerDirs : Mkdir(d) \/ Rmdir(d)
    \/ \E p \in LogFiles : CreateFile(p) \/ Truncate(p) \/ ReplaceTarget(p) \/ RemoveFile(p)
    \/ \E p \in LogFiles, n \in 1..MaxSize : AppendLog(p, n)
    \/ \E old \in LogFiles, new \in LogFiles : Rename(old, new)

\* The Watcher running over a changing tree, not closed.
RunNext == New \/ Receive \/ Watch \/ FsStep

RunSpec == Init /\ [][RunNext]_vars

Next == RunNext \/ Close \/ WatchReturns

Spec == Init /\ [][Next]_vars

\* The run loop is a goroutine of its own and New runs to completion: both
\* are taken whenever they stay possible.
Fairness == WF_vars(New) /\ WF_vars(Receive) /\ WF_vars(Watch)

FairSpec == Spec /\ Fairness

\* Runs in which the Watcher is closed while logs are written: once Close was
\* called the run loop, a goroutine of its own, goes on until Watch returns.
CloseNext ==
    \/ New
    \/ Receive
    \/ Watch
    \/ Close
    \/ WatchReturns
    \/ \E p \in LogFiles : CreateFile(p)
    \/ \E p \in LogFiles, n \in 1..MaxSize : AppendLog(p, n)

CloseSpec == Init /\ [][CloseNext]_vars /\ Fairness /\ WF_vars(WatchReturns)

\* Runs of the operations on files and symlinks of a container directory that
\* is there from the start and stays: create, write, truncate, replace a
\* target, rename, remove.
NotifyNext ==
    \/ New
    \/ Receive
    \/ Watch
    \/ \E p \in LogFiles : CreateFile(p) \/ Truncate(p) \/ ReplaceTarget(p) \/ RemoveFile(p)
    \/ \E p \in LogFiles, n \in 1..MaxSize : AppendLog(p, n)
    \/ \E old \in LogFiles, new \in LogFiles : Rename(old, new)

NotifyInit == Init /\ dirs = Dirs \ {PodA}

NotifySpec == NotifyInit /\ [][NotifyNext]_vars

\* An event for a path under pod ab's directory that reaches the run loop when
\* the directory is gone and every other event was handled: delivered late, or
\* out of order.
Stray(name, op) ==
    /\ phase = "watching"
    /\ PodAB \notin dirs
    /\ queue = <<>> /\ received = <<>>
    /\ queue' = Append(queue, Event(name, op))
    /\ UNCHANGED <<phase, watches, wvars, fsvars>>

\* Runs in which the logs and the directories of a pod are removed and events
\* for its paths still arrive afterwards.
StrayNext ==
    \/ New
    \/ Receive
    \/ Watch
    \/ \E p \in LogFiles : RemoveFile(p)
    \/ \E d \in PodDirs \cup ContainerDirs : Rmdir(d)
    \/ \E name \in ContainerDirs \cup LogFiles, op \in Ops \ {"Remove"} : Stray(name, op)

StraySpec == Init /\ [][StrayNext]_vars

\* Runs in which the tree of pod ab is made after the Watcher is constructed
\* and its logs are created and appended to.
LateDirInit == Init /\ PodAB \notin dirs

LateMkdir(d) == Within(MaxLateSteps) /\ MkdirOp(d)

LateCreate(p) == Within(MaxLateSteps) /\ CreateOp(p)

LateAppend(p, n) == Within(MaxLateSteps) /\ AppendOp(p, n)

LateDirNext ==
    \/ New
    \/ Receive
    \/ Watch
    \/ \E d \in PodDirs \cup ContainerDirs : LateMkdir(d)
    \/ \E p \in LogFiles : LateCreate(p)
    \/ \E p \in LogFiles, n \in 1..MaxSize : LateAppend(p, n)

LateDirSpec == LateDirInit /\ [][LateDirNext]_vars /\ Fairness

\* Runs in which log files are only created and appended to.
AppendNext ==
    \/ New
    \/ Receive
    \/ Watch
    \/ \E d \in PodDirs \cup ContainerDirs : Mkdir(d)
    \/ \E p \in LogFiles : CreateFile(p)
    \/ \E p \in LogFiles, n \in 1..MaxSize : AppendLog(p, n)

AppendSpec == Init /\ [][AppendNext]_vars /\ Fairness

\* Runs in which log files are only appended to and rotated, each rotation
\* starting from a settled counter.
RotateNext ==
    \/ New
    \/ Receive
    \/ Watch
    \/ \E p \in LogFiles : TruncateSettled(p) \/ ReplaceSettled(p)
    \/ \E p \in LogFiles, n \in 1..MaxSize : AppendLog(p, n)

RotateSpec == Init /\ [][RotateNext]_vars

\* Runs in which log files are removed, created again and appended to, under
\* directories that stay, each removal starting from a settled counter.
RecreateNext ==
    \/ New
    \/ Receive
    \/ Watch
    \/ \E p \in LogFiles : RemoveSettled(p) \/ CreateFile(p)
    \/ \E p \in LogFiles, n \in 1..MaxSize : AppendLog(p, n)

RecreateSpec == Init /\ [][RecreateNext]_vars

\* Runs in which logs are written and then files and directories are removed.
RemovalNext ==
    \/ New
    \/ Receive
    \/ Watch
    \/ \E p \in LogFiles : RemoveFile(p)
    \/ \E d \in PodDirs \cup ContainerDirs : Rmdir(d)
    \/ \E p \in LogFiles, n \in 1..MaxSize : AppendLog(p, n)

RemovalSpec == Init /\ [][RemovalNext]_vars /\ Fairness

TypeOK ==
    /\ phase \in {"init", "watching", "closed", "returned"}
    /\ received = <<>> \/ (Len(received) = 1 /\ received[1] \in [Name : Paths, Op : Ops])
    /\ dirs \subseteq Dirs /\ TreeOK(dirs, files)
    /\ links \subseteq LogFiles /\ \A p \in links : files[p] # Absent
    /\ watches \subseteq Dirs \cup LogFiles
    /\ Len(queue) <= 2 * MaxSteps
    /\ \A i \in 1..Len(queue) : queue[i] \in [Name : Paths, Op : Ops]
    /\ DOMAIN sizes \subseteq LogFiles
    /\ DOMAIN metrics \subseteq AllLabels

\* -------------------------------------------------------------------------
\* Vocabulary of the properties.
\* -------------------------------------------------------------------------

\* The label combination of pod ab's container c, written out.
ContainerC ==
    [Namespace |-> <<"n">>, Name |-> <<"p">>, UUID |-> <<"a", "b">>, Container |-> <<"c">>]

\* This step is the body of the run loop handling the event received (the
\* only step that consumes it).
IsWatchStep == received # <<>> /\ received' = <<>>

\* This step is the construction.
IsNewStep == phase = "init" /\ phase' = "watching"

\* This step is a call of Update from the run loop on name.
IsUpdateOf(name) == IsWatchStep /\ received[1].Op # "Remove" /\ received[1].Name = name

\* This step is a call of Remove from the run loop on name.
IsRemoveOf(name) == IsWatchStep /\ received[1].Op = "Remove" /\ received[1].Name = name

Bytes(p) == IF files[p] = Absent THEN 0 ELSE files[p]

\* -------------------------------------------------------------------------
\* C1.  The value read for a label combination never decreases.
\* -------------------------------------------------------------------------

\* C1 as stated: in every step, for every label combination, the value read
\* from the counter vector (an absent series reads as 0) does not decrease,
\* whatever Update or Remove the run loop makes.
C1_NeverDecreases ==
    [][\A l \in AllLabels : Read(metrics', l) >= Read(metrics, l)]_vars

\* C1 amended: in every step, for every label combination, the value read does
\* not decrease, except in a Remove of a pod-directory-shaped path, which
\* deletes the series so that it reads as 0.
C1_NeverDecreasesButByPodRemove ==
    [][\A l \in AllLabels :
          \/ Read(metrics', l) >= Read(metrics, l)
          \/ /\ \E d \in Paths : IsRemoveOf(d) /\ d \in PodDirs
             /\ l \notin DOMAIN metrics']_vars

\* The Remove of a deleted pod directory has just been handled: the series of
\* its container, whose logs had held bytes, is gone.
C1_Witness ==
    /\ Quiet
    /\ last.op = "Remove" /\ last.name = PodAB
    /\ ContainerC \notin DOMAIN metrics
    /\ last.name \notin dirs
    /\ \E p \in LogFiles : written[p] > 0

\* -------------------------------------------------------------------------
\* C2.  What Update adds, and what it records.
\* -------------------------------------------------------------------------

\* C2: Update(path) on a label-matching path whose stat gives size, with
\* lastSize the recorded size (0 if none), adds size - lastSize to the
\* container's counter when size >= lastSize and size when size < lastSize,
\* and leaves the recorded size of path equal to size.
C2_UpdateAddsAndRecords ==
    [][\A p \in LogFiles :
          (IsUpdateOf(p) /\ files[p] # Absent) =>
              LET size == files[p]
                  lastSize == SizeOf(sizes, p)
              IN  /\ Read(metrics', ContainerC) - Read(metrics, ContainerC)
                        = IF size >= lastSize THEN size - lastSize ELSE size
                  /\ p \in DOMAIN sizes' /\ sizes'[p] = size]_vars

\* An Update has just seen a file shorter than recorded and not empty: the
\* path has been credited with more than its recorded size.
C2_Witness ==
    \E p \in LogFiles :
        /\ last.op = "Update" /\ last.name = p
        /\ p \in DOMAIN sizes /\ sizes[p] > 0 /\ sizes[p] = Bytes(p)
        /\ credited[p] > sizes[p]

\* -------------------------------------------------------------------------
\* C3.  Every contribution of an Update is non-negative.
\* -------------------------------------------------------------------------

\* C3: whatever sizes successive Updates of a path observe, each Update (from
\* the run loop or from the walk of New) adds a non-negative amount for every
\* path, and no counter decreases across it.
C3_UpdateAddsNonNegative ==
    [][(IsNewStep \/ \E name \in Paths : IsUpdateOf(name)) =>
          /\ \A p \in LogFiles : credited'[p] >= credited[p]
          /\ \A l \in AllLabels : Read(metrics', l) >= Read(metrics, l)]_vars

\* An Update has just seen a file cut to nothing after its size was recorded:
\* it added 0, and the counter keeps what it had.
C3_Witness ==
    \E p \in LogFiles :
        /\ last.op = "Update" /\ last.name = p
        /\ p \in DOMAIN sizes /\ sizes[p] = 0 /\ files[p] = 0
        /\ credited[p] > 0
        /\ Read(metrics, ContainerC) >= credited[p]

\* -------------------------------------------------------------------------
\* C5.  Paths with equal labels share one series.
\* -------------------------------------------------------------------------

\* C5: the two log files of container c, whose labels are equal, accumulate
\* into one series: its value is the sum of what the Updates of either path
\* added, and there is no series other than the container's.
C5_OneSeriesPerContainer ==
    /\ DOMAIN metrics \subseteq {ContainerC}
    /\ Read(metrics, ContainerC) = credited[File0] + credited[File1]

\* Both files have added bytes to the container's series, the second one in
\* an Update of the run loop.
C5_Witness ==
    /\ last.op = "Update" /\ last.name = File1
    /\ credited[File0] > 0 /\ credited[File1] > 0
    /\ ContainerC \in DOMAIN metrics
    /\ metrics[ContainerC] = credited[File0] + credited[File1]

\* -------------------------------------------------------------------------
\* C7.  Remove of a path that is not a pod directory changes nothing.
\* -------------------------------------------------------------------------

\* C7: Remove(path) for a log file or for a container directory leaves the size
\* table and every series as they were.
C7_RemoveOfFileIsNoOp ==
    [][\A path \in LogFiles \cup ContainerDirs :
          IsRemoveOf(path) => sizes' = sizes /\ metrics' = metrics]_vars

\* The Remove of a log file has just been handled, and the file's recorded
\* size and the counter are still there.
C7_Witness ==
    \E p \in LogFiles :
        /\ last.op = "Remove" /\ last.name = p
        /\ files[p] = Absent
        /\ p \in DOMAIN sizes /\ sizes[p] > 0
        /\ Read(metrics, ContainerC) > 0

\* -------------------------------------------------------------------------
\* C10.  The walk of New credits every file once.
\* -------------------------------------------------------------------------

\* C10: when New completes over a tree that does not change during the walk,
\* every log file of the tree has been credited once: each path has added its
\* size, and each container's counter is the sum of the sizes of its files.
C10_WalkCreditsOnce ==
    [][IsNewStep =>
          /\ \A p \in LogFiles : credited'[p] = Bytes(p)
          /\ \A l \in AllLabels : Read(metrics', l) = BytesIn(files, l)
          /\ Read(metrics', ContainerC) = Bytes(File0) + Bytes(File1)]_vars

\* New has just returned over a tree with two non-empty log files.
C10_Witness ==
    /\ last.op = "New" /\ steps = 0
    /\ Bytes(File0) > 0 /\ Bytes(File1) > 0
    /\ metrics[ContainerC] = Bytes(File0) + Bytes(File1)

\* -------------------------------------------------------------------------
\* C4.  Rotation followed by writes.
\* -------------------------------------------------------------------------

\* C4: in runs where logs are only appended to and rotated (cut to length 0 in
\* place, or the symlink's target replaced by a new empty file), once every
\* event is processed each container's counter equals the bytes ever written
\* to its logs, whatever the interleaving of the writes with the run loop.
C4_RotationCountsAllBytes ==
    Quiet => \A l \in AllLabels : Read(metrics, l) = SumOver(written, FilesOf(l))

\* -------------------------------------------------------------------------
\* C6.  Removal of the pod directory clears its entries and its series.
\* -------------------------------------------------------------------------

\* No recorded size lies under directory d and the series of its container is
\* absent.
Cleared(d) ==
    /\ \A k \in DOMAIN sizes : ~HasPrefix(k, d \o Slash)
    /\ ContainerC \notin DOMAIN metrics

RemovePending(d) ==
    \/ \E i \in 1..Len(queue) : queue[i] = Event(d, "Remove")
    \/ received = <<Event(d, "Remove")>>

\* C6: when the Remove event of the pod directory is processed, every recorded
\* size under it is deleted and the container's series is absent, though no
\* Remove of a file cleared anything; and once the pod directory is removed
\* that state is eventually reached.
C6_PodRemovalClears ==
    /\ [][IsRemoveOf(PodAB) => Cleared(PodAB)']_vars
    /\ RemovePending(PodAB) ~> (last = [op |-> "Remove", name |-> PodAB] /\ Cleared(PodAB))

\* The pod directory is gone with all that was in it, its Remove has been
\* handled last, and nothing of its logs, which had held bytes, is recorded.
C6_Witness ==
    /\ PodAB \notin dirs
    /\ last = [op |-> "Remove", name |-> PodAB]
    /\ written[File0] + written[File1] > 0
    /\ sizes = <<>> /\ metrics = <<>>
    /\ credited = [p \in LogFiles |-> 0]

\* -------------------------------------------------------------------------
\* C8.  A log file removed and created again.
\* -------------------------------------------------------------------------

\* C8: in runs where log files are removed and created again under a pod
\* directory that stays, once every event is processed each path has added to
\* the counter every byte written to it, before its removal and after: the
\* content of the recreated file adds to the counter.
C8_RecreatedFileAdds ==
    Quiet => \A p \in LogFiles : credited[p] = written[p]

\* -------------------------------------------------------------------------
\* C9.  Runs that only create and append.
\* -------------------------------------------------------------------------

\* C9: in runs where log files are only created and appended to, a container's
\* counter never exceeds the bytes in its log files and eventually equals
\* them, for files that were there before New and files created afterwards.
C9_AppendOnlyCountsAll ==
    /\ [](\A l \in AllLabels : Read(metrics, l) <= BytesIn(files, l))
    /\ <>[](phase = "watching" /\
            \A l \in AllLabels : Read(metrics, l) = BytesIn(files, l))

\* Every event is processed, after at least two operations on the files, and
\* the counter holds the bytes of two non-empty log files.
C9_Witness ==
    /\ Quiet /\ steps >= 2
    /\ last.op = "Update"
    /\ Bytes(File0) > 0 /\ Bytes(File1) > 0
    /\ Read(metrics, ContainerC) = Bytes(File0) + Bytes(File1)

\* -------------------------------------------------------------------------
\* C11.  Logs of a directory tree made after watching started.
\* -------------------------------------------------------------------------

\* C11: in runs where the directory tree of pod ab is made after the Watcher
\* was constructed, and its log files are created and appended to, whatever the
\* order of the registration of the new directories and the creation of and
\* writes to the files in them, every log file is eventually credited with all
\* the bytes written to it and the container's counter is their sum, from then
\* on.
C11_LateTreeCredited ==
    <>[](/\ phase = "watching"
         /\ \A p \in LogFiles : credited[p] = written[p]
         /\ Read(metrics, ContainerC) = written[File0] + written[File1])

\* The pod directory, the container directory and a log file with bytes in it
\* were all made before Event() returned the Create of the pod directory; the
\* scan of Update on that event, the only one reported, has credited the bytes.
C11_Witness ==
    /\ Quiet
    /\ last = [op |-> "Update", name |-> PodAB]
    /\ steps >= 4
    /\ \E p \in LogFiles : written[p] > 0 /\ credited[p] = written[p]
    /\ Read(metrics, ContainerC) = written[File0] + written[File1]

\* -------------------------------------------------------------------------
\* C12.  Close ends the run loop.
\* -------------------------------------------------------------------------

\* C12: whenever Close has been called, with events pending or with the run
\* loop blocked in Event() on an empty stream, Watch eventually returns (nil,
\* on the end of the stream) instead of blocking for ever.
C12_CloseEndsWatch ==
    (last.op = "Close") ~> (phase = "returned")

\* Watch has returned after a Close, the files having been written to while it
\* ran and the counter holding bytes.
C12_Witness ==
    /\ phase = "returned"
    /\ last = [op |-> "Watch", name |-> Root]
    /\ queue = <<>> /\ received = <<>>
    /\ steps > 0
    /\ Read(metrics, ContainerC) > 0

\* -------------------------------------------------------------------------
\* C13.  The target of a symlink replaced.
\* -------------------------------------------------------------------------

\* This step replaces the target of the watched symlink p, which stays.
IsReplaced(p) ==
    /\ p \in links /\ p \in links'
    /\ p \in watches /\ p \notin watches'
    /\ steps' # steps

\* No event that names p waits in the stream.
NonePending(p) == \A i \in 1..Len(queue) : queue[i].Name # p

\* C13: the replacement of the target of a watched symlink adds to the stream
\* one event, Chmod with the link's path, and no Create or Remove; and once
\* Event() has returned that Chmod, nothing else having happened to the link, a
\* write to the new target adds a Write event with the link's path.
C13_ReplacedTargetIsChmod ==
    [][\A p \in LogFiles :
          /\ IsReplaced(p) => queue' = Append(queue, Event(p, "Chmod"))
          /\ ( /\ received = <<Event(p, "Chmod")>> /\ NonePending(p)
               /\ p \in links /\ files'[p] > files[p] )
             => queue' = Append(queue, Event(p, "Write"))]_vars

\* The target of the link was replaced, Event() has returned the Chmod, and a
\* write to the new target waits in the stream as a Write on the link.
C13_Witness ==
    /\ received = <<Event(File1, "Chmod")>>
    /\ queue = <<Event(File1, "Write")>>
    /\ File1 \in links /\ File1 \in watches
    /\ files[File1] > 0

\* -------------------------------------------------------------------------
\* C14.  Rename.
\* -------------------------------------------------------------------------

\* This step renames old to new.
IsRename(old, new) ==
    /\ files[old] # Absent /\ files'[old] = Absent
    /\ files[new] = Absent /\ files'[new] # Absent

\* C14: a rename of old to new in a watched directory adds to the stream two
\* events, Rename with the old name and then Create with the new name, so that
\* no Rename event carries the new name; and a later write adds a Write event
\* with the name the file has: at once for a file in a watched directory, and
\* for a symlink once Event() has returned the Create of its new name.
C14_RenameIsRenameThenCreate ==
    [][/\ \A old \in LogFiles, new \in LogFiles :
             (IsRename(old, new) /\ Parent(old) \in watches) =>
                 /\ Len(queue') = Len(queue) + 2
                 /\ SubSeq(queue', 1, Len(queue)) = queue
                 /\ queue'[Len(queue) + 1] = [Name |-> old, Op |-> "Rename"]
                 /\ queue'[Len(queue) + 2] = [Name |-> new, Op |-> "Create"]
       /\ \A p \in LogFiles :
             ( \/ p \notin links /\ Parent(p) \in watches /\ files[p] # Absent
               \/ p \in links /\ received = <<Event(p, "Create")>> /\ NonePending(p) ) =>
                 (files'[p] > files[p] => queue' = Append(queue, [Name |-> p, Op |-> "Write"]))]_vars

\* The stream holds the two events of a rename of 0.log to 1.log and then the
\* Write of a later write, under the new name.
C14_Witness ==
    /\ queue = << [Name |-> File0, Op |-> "Rename"],
                  [Name |-> File1, Op |-> "Create"],
                  [Name |-> File1, Op |-> "Write"] >>
    /\ files[File0] = Absent /\ files[File1] > 0
    /\ File1 \notin links

\* -------------------------------------------------------------------------
\* C15.  Events of a symlink carry the link's path.
\* -------------------------------------------------------------------------

\* C15: a change to the file a watched symlink points at (a write, a
\* truncation, a replacement) adds to the stream one event whose Name is the
\* link's path, Write for a write or a truncation and Chmod for a replacement;
\* and no event of the stream, waiting or returned, is named by the path of a
\* target.
C15_LinkEventsCarryLinkPath ==
    /\ [][\A p \in LogFiles :
              (p \in links /\ p \in links' /\ p \in watches /\ files'[p] # files[p]) =>
                  \E op \in {"Write", "Chmod"} :
                      /\ queue' = Append(queue, [Name |-> p, Op |-> op])
                      /\ (op = "Chmod") = (p \notin watches')]_vars
    /\ [](/\ \A i \in 1..Len(queue) : queue[i].Name \notin Targets
          /\ \A i \in 1..Len(received) : received[i].Name \notin Targets)

\* The target of the watched symlink was cut to nothing after bytes were
\* written to it, and a Write event with the link's path waits in the stream.
C15_Witness ==
    /\ File1 \in links /\ File1 \in watches
    /\ files[File1] = 0 /\ written[File1] > 0
    /\ queue # <<>> /\ queue[Len(queue)] = [Name |-> File1, Op |-> "Write"]

\* -------------------------------------------------------------------------
\* C16.  Only the Remove of its own pod directory clears a path.
\* -------------------------------------------------------------------------

\* C16: a recorded size of a log path, and the series of its container, are
\* left as they were by the Remove of any path other than the pod directory
\* that holds the log path, another pod directory included.
C16_OnlyOwnPodRemoveClears ==
    [][\A name \in Paths \ {PodAB} :
          IsRemoveOf(name) =>
              /\ \A p \in LogFiles :
                     p \in DOMAIN sizes => p \in DOMAIN sizes' /\ sizes'[p] = sizes[p]
              /\ ContainerC \in DOMAIN metrics =>
                     ContainerC \in DOMAIN metrics' /\ metrics'[ContainerC] = metrics[ContainerC]]_vars

\* -------------------------------------------------------------------------
\* C17.  The routing of the run loop.
\* -------------------------------------------------------------------------

\* C17: the stream is consumed from its head, one event at a time, an event
\* being taken only once the one before it was handled; and each event is
\* handled once, by Remove when its Op is Remove and by Update otherwise: a
\* Remove event of a pod directory leaves no recorded size under it and the
\* Remove event of a file that exists changes nothing, while any other event
\* deletes no recorded size and, for a log file that exists, records its size.
C17_RemoveToRemoveElseUpdate ==
    [][/\ queue' # queue /\ Len(queue') <= Len(queue) =>
             /\ received = <<>> /\ received' = <<Head(queue)>>
             /\ queue' = Tail(queue)
       /\ received # <<>> /\ received' # received =>
             /\ received' = <<>> /\ queue' = queue
             /\ LET e == received[1]
                IN  IF e.Op = "Remove"
                    THEN /\ e.Name \in PodDirs =>
                               \A k \in DOMAIN sizes' : ~HasPrefix(k, e.Name \o Slash)
                         /\ e.Name \in LogFiles /\ files[e.Name] # Absent =>
                               sizes' = sizes /\ metrics' = metrics
                    ELSE /\ DOMAIN sizes \subseteq DOMAIN sizes'
                         /\ DOMAIN metrics \subseteq DOMAIN metrics'
                         /\ e.Name \in LogFiles /\ files[e.Name] # Absent =>
                               e.Name \in DOMAIN sizes' /\ sizes'[e.Name] = files[e.Name]]_vars

\* 0.log, which held bytes, was renamed to 1.log and made again, empty; the
\* run loop has handled the Rename event of 0.log by Update, which recorded
\* the size of the new file, and the two Create events wait in their order.
C17_Witness ==
    /\ last = [op |-> "Update", name |-> File0]
    /\ received = <<>>
    /\ queue = <<Event(File1, "Create"), Event(File0, "Create")>>
    /\ File0 \in DOMAIN sizes /\ sizes[File0] = 0 /\ files[File0] = 0
    /\ credited[File0] > 0

\* -------------------------------------------------------------------------
\* C18.  Update of a log path whose stat fails.
\* -------------------------------------------------------------------------

\* C18: an Update of a label-matching path that does not exist leaves the
\* recorded sizes and every series as they were, makes no series, and leaves
\* the run loop running.
C18_FailedStatChangesNothing ==
    [][\A p \in LogFiles :
          (IsUpdateOf(p) /\ files[p] = Absent) =>
              /\ sizes' = sizes
              /\ metrics' = metrics
              /\ phase' = phase /\ phase = "watching"]_vars

\* The run loop has handled an event of a log file that was gone by then;
\* no size was ever recorded and there is no series, and the loop goes on
\* with the events that wait.
C18_Witness ==
    \E p \in LogFiles :
        /\ last = [op |-> "Update", name |-> p]
        /\ files[p] = Absent
        /\ sizes = <<>> /\ metrics = <<>>
        /\ phase = "watching" /\ queue # <<>>

\* -------------------------------------------------------------------------
\* C19.  The counter and the recorded sizes.
\* -------------------------------------------------------------------------

\* The sum of the recorded sizes of the paths with labels l.
Recorded(sz, l) == SumOver([p \in LogFiles |-> SizeOf(sz, p)], FilesOf(l))

\* The log files an Update of name visits: name itself, or those under it.
Visited(name) ==
    {p \in LogFiles : files[p] # Absent /\ (p = name \/ HasPrefix(p, name \o Slash))}

\* This step is an Update that finds a file shorter than its recorded size.
ObservesShrink ==
    /\ IsWatchStep /\ received[1].Op # "Remove"
    /\ \E p \in Visited(received[1].Name) : files[p] < SizeOf(sizes, p)

\* C19: for every label combination the counter is at least the sum of the
\* recorded sizes of its paths, in every state; and the two, equal at the
\* start, stay equal over every step that is not an Update finding a file
\* shorter than its recorded size.
C19_CounterCoversRecorded ==
    /\ [](\A l \in AllLabels : Read(metrics, l) >= Recorded(sizes, l))
    /\ [][\A l \in AllLabels :
              (Read(metrics, l) = Recorded(sizes, l) /\ ~ObservesShrink) =>
                  Read(metrics', l) = Recorded(sizes', l)]_vars

\* Both log files have a recorded size, and after an Update that found one of
\* them shorter than recorded the counter is above their sum.
C19_Witness ==
    /\ Quiet
    /\ DOMAIN sizes = LogFiles
    /\ sizes[File0] + sizes[File1] > 0
    /\ Read(metrics, ContainerC) > sizes[File0] + sizes[File1]

\* -------------------------------------------------------------------------
\* C20.  Events that arrive after the pod directory is gone.
\* -------------------------------------------------------------------------

\* C20: when the pod directory does not exist (so no file under it does) and
\* its Remove has been processed, leaving no recorded size under it and no
\* series, the handling of any event that is not a Remove, for a path under
\* it, records no size and makes no series.
C20_LateEventsMakeNothing ==
    [][(/\ PodAB \notin dirs /\ Cleared(PodAB)
        /\ \E name \in ContainerDirs \cup LogFiles : IsUpdateOf(name)) =>
           Cleared(PodAB)']_vars

\* The pod directory, whose log held bytes when the Watcher started, is gone
\* and its Remove was processed; the run loop has then handled a late event of
\* the log file, and nothing is recorded.
C20_Witness ==
    /\ PodAB \notin dirs /\ ~RemovePending(PodAB)
    /\ last = [op |-> "Update", name |-> File0]
    /\ written[File0] > 0
    /\ sizes = <<>> /\ metrics = <<>>
    /\ Quiet
====
